---- MODULE Spec2Model ----
(***************************************************************************)
(* Model of the playwright plugin's script executor                        *)
(* (plugins/playwright/run.js).                                            *)
(*                                                                         *)
(* Text is modelled as a sequence of tokens.  The tokens are chosen so     *)
(* that String.prototype.includes on the concatenated characters agrees    *)
(* with a contiguous-subsequence test on the tokens: the characters        *)
(* "require" occur only in the token "require", and an opening paren       *)
(* directly followed by "async" only where the token "(" is followed by    *)
(* one of the two "async..." tokens.                                       *)
(***************************************************************************)
EXTENDS Integers, Sequences, FiniteSets, TLC

----------------------------------------------------------------------------
(* Bounds *)

MaxLen == 4        \* longest source text, in tokens, fed to wrapCodeIfNeeded
MaxArgs == 2       \* longest argv tail
MaxStale == 2      \* most temp files left on disk before the first invocation
MaxTime == 2       \* clock ticks after the initial reading of Date.now()
MaxMsgLen == 2     \* longest error message, in tokens, fed to formatError
MaxCustom == 2     \* longest customPorts argument of detectDevServers
MaxRetries == 3    \* largest retry count a caller passes to a retrying helper
MaxTimes == 3      \* largest options.times passed to mockAPIResponse
MaxRequests == 5   \* most requests a mocked route intercepts

----------------------------------------------------------------------------
(* Text *)

Tok == {"require", "(", "async () => {", "async()=>{", "x"}

RECURSIVE SeqsUpTo(_, _)
SeqsUpTo(S, n) ==
    IF n = 0 THEN {<<>>}
    ELSE LET shorter == SeqsUpTo(S, n - 1)
         IN  shorter \cup {Append(s, t) : s \in {q \in shorter : Len(q) = n - 1}, t \in S}

Sources == SeqsUpTo(Tok, MaxLen)

\* String.prototype.includes
Includes(s, pat) ==
    \E i \in 1..(Len(s) - Len(pat) + 1) : SubSeq(s, i, i + Len(pat) - 1) = pat

\* number of (possibly overlapping) occurrences of pat in s
Count(s, pat) ==
    Cardinality({i \in 1..(Len(s) - Len(pat) + 1) : SubSeq(s, i, i + Len(pat) - 1) = pat})

RequireMark == <<"require", "(">>
AsyncMark1 == <<"(", "async () => {">>
AsyncMark2 == <<"(", "async()=>{">>

hasRequire(code) == Includes(code, RequireMark)
hasAsyncIIFE(code) == Includes(code, AsyncMark1) \/ Includes(code, AsyncMark2)

ImportsText ==
    <<"\nconst { chromium, firefox, webkit, devices } = ", "require", "(", "'playwright');\nconst helpers = ",
      "require", "(", "'./lib/helpers');\n">>

EntryOpen == <<"\n", "(", "async () => {", "\n  try {\n    ">>

CatchText ==
    <<"\n  } catch (error) {\n    ", "console.error('Automation error:', error.message);",
      "\n    if (error.stack) {\n      console.error(error.stack);\n    }\n    ",
      "process.exit(1);", "\n  }\n})();\n">>

FullTemplate(code) == ImportsText \o EntryOpen \o code \o CatchText
EntryTemplate(code) == EntryOpen \o code \o CatchText

\* the complete-script test is dropped
wrapCodeIfNeeded_noPassThrough(code) ==
    IF ~hasRequire(code) THEN FullTemplate(code) ELSE EntryTemplate(code)

\* a bare source gets the entry but not the imports
wrapCodeIfNeeded_bareWithoutImports(code) ==
    IF hasRequire(code) /\ hasAsyncIIFE(code) THEN code
    ELSE EntryTemplate(code)

\* a source with imports and no entry gets the full template
wrapCodeIfNeeded_importsTwice(code) ==
    IF hasRequire(code) /\ hasAsyncIIFE(code) THEN code
    ELSE FullTemplate(code)

\* the entry test asks for both spellings of the entry (&& for ||)
wrapCodeIfNeeded_bothEntryForms(code) ==
    LET hasBoth == Includes(code, AsyncMark1) /\ Includes(code, AsyncMark2)
    IN  IF hasRequire(code) /\ hasBoth THEN code
        ELSE IF ~hasRequire(code) THEN FullTemplate(code)
        ELSE IF ~hasBoth THEN EntryTemplate(code)
        ELSE code

wrapCodeIfNeeded(code) ==
    IF hasRequire(code) /\ hasAsyncIIFE(code) THEN code
    ELSE IF ~hasRequire(code) THEN FullTemplate(code)
    ELSE IF ~hasAsyncIIFE(code) THEN EntryTemplate(code)
    ELSE code

----------------------------------------------------------------------------
(* Error messages and the suggestion table *)

Suggestions ==
    << [pattern |-> "Target closed", hint |-> "The browser or page was closed unexpectedly. Check if the page navigation completed."],
       [pattern |-> "Timeout", hint |-> "Operation timed out. Try increasing the timeout or check if the element exists."],
       [pattern |-> "Element is not visible", hint |-> "The element exists but is hidden. Use { force: true } or wait for visibility."],
       [pattern |-> "Element is outside of the viewport", hint |-> "Try scrolling to the element first with scrollIntoViewIfNeeded()."],
       [pattern |-> "net::ERR_CONNECTION_REFUSED", hint |-> "Could not connect to the URL. Make sure the server is running."],
       [pattern |-> "Cannot find module", hint |-> "Module not found. Run: cd <dirname> && npm install"],
       [pattern |-> "Executable doesn't exist", hint |-> "Browser not installed. Run: cd <dirname> && npm run setup"] >>

\* indices of the table rows whose pattern occurs in the message
Matching(message) ==
    {i \in 1..Len(Suggestions) : Includes(message, <<Suggestions[i].pattern>>)}

Min(S) == CHOOSE i \in S : \A j \in S : i <= j

Max(S) == CHOOSE i \in S : \A j \in S : j <= i

\* the loop does not return at the first match, so the last match wins
formatError_lastMatch(message) ==
    IF Matching(message) = {} THEN message
    ELSE message \o <<"\n\nSuggestion: ", Suggestions[Max(Matching(message))].hint>>

formatError(message) ==
    IF Matching(message) = {} THEN message
    ELSE message \o <<"\n\nSuggestion: ", Suggestions[Min(Matching(message))].hint>>

\* messages of the errors a loaded unit throws
UnitMessages == {<<"boom">>, <<"page.click: ", "Timeout", " 30000ms exceeded">>}

ModuleMissing == <<"Cannot find module", " '<tempFile>'">>
WriteFailed == <<"ENOSPC: no space left on device, write">>
IsADirectory == <<"EISDIR: illegal operation on a directory, read">>

----------------------------------------------------------------------------
(* The plugin directory *)

TempName(t) == [pre |-> ".temp-execution-", mid |-> t, suf |-> ".js"]

\* entries of the plugin directory that are not execution artifacts
OtherFiles ==
    {[pre |-> "", mid |-> 0, suf |-> ".js"], [pre |-> ".temp-execution-", mid |-> 0, suf |-> ".json"]}

\* the cleanup looks for another prefix than the one main writes
IsTempFile_otherPrefix(f) == f.pre = ".temp-exec-" /\ f.suf = ".js"

IsTempFile(f) == f.pre = ".temp-execution-" /\ f.suf = ".js"

NoFile == [pre |-> "", mid |-> 0, suf |-> ""]
NoCode == <<"<none>">>
StaleText == <<"<stale>">>
OtherText == <<"<other>">>

\* the names in S as fs.readdirSync lists them (ascending)
RECURSIVE Listing(_)
Listing(S) ==
    IF S = {} THEN <<>>
    ELSE LET f == CHOOSE g \in S : \A h \in S : g.mid <= h.mid
         IN  <<f>> \o Listing(S \ {f})

Remove(d, f) == [g \in (DOMAIN d) \ {f} |-> d[g]]
Put(d, f, text) == [g \in (DOMAIN d) \cup {f} |-> IF g = f THEN text ELSE d[g]]

TempFilesOn(d) == {f \in DOMAIN d : IsTempFile(f)}

----------------------------------------------------------------------------
(* Input channels *)

ScriptArg == <<"script.js">>      \* names an existing regular file
DirArg == <<"lib">>               \* names an existing directory
InlineArgs == {<<"x">>, <<"require", "(", "x">>}
ArgVals == {ScriptArg, DirArg} \cup InlineArgs
ArgLists == SeqsUpTo(ArgVals, MaxArgs)

StdinTexts == {<<"x">>, <<"(", "async () => {", "x">>}

\* what an invocation is started with
Envs == [argv : ArgLists, isTTY : BOOLEAN, stdinText : StdinTexts]

\* the environments of the invocations that share the plugin directory:
\* inline code that gets wrapped, and a script file that is complete
RaceEnvs ==
    {[argv |-> <<<<"x">>>>, isTTY |-> TRUE, stdinText |-> <<"x">>],
     [argv |-> <<ScriptArg>>, isTTY |-> TRUE, stdinText |-> <<"x">>]}

existsSync(path) == path \in {ScriptArg, DirArg}
isDirectory(path) == path = DirArg
\* contents of the script file
FileText(path) == <<"require", "(", "(", "async () => {", "x">>

\* Array.prototype.join(' ')
RECURSIVE Join(_)
Join(a) ==
    IF Len(a) = 0 THEN <<>>
    ELSE IF Len(a) = 1 THEN a[1]
    ELSE a[1] \o <<" ">> \o Join(Tail(a))

\* the process.exit(1) after the usage text is missing: the function returns
\* undefined, which reaches the caller as an empty source here
getCodeToExecute_noUsageExit(argv, isTTY, stdinText) ==
    IF Len(argv) > 0 /\ existsSync(argv[1])
    THEN IF isDirectory(argv[1])
         THEN [rule |-> 1, how |-> "throw", text |-> NoCode, readStdin |-> FALSE]
         ELSE [rule |-> 1, how |-> "return", text |-> FileText(argv[1]), readStdin |-> FALSE]
    ELSE IF Len(argv) > 0
    THEN [rule |-> 2, how |-> "return", text |-> Join(argv), readStdin |-> FALSE]
    ELSE IF ~isTTY
    THEN [rule |-> 3, how |-> "return", text |-> stdinText, readStdin |-> TRUE]
    ELSE [rule |-> 4, how |-> "return", text |-> <<>>, readStdin |-> FALSE]

\* rule: the case of getCodeToExecute that fired; how: "return", "throw"
\* (fs.readFileSync raised) or "exit" (process.exit(1) after the usage text)
getCodeToExecute(argv, isTTY, stdinText) ==
    IF Len(argv) > 0 /\ existsSync(argv[1])
    THEN IF isDirectory(argv[1])
         THEN [rule |-> 1, how |-> "throw", text |-> NoCode, readStdin |-> FALSE]
         ELSE [rule |-> 1, how |-> "return", text |-> FileText(argv[1]), readStdin |-> FALSE]
    ELSE IF Len(argv) > 0
    THEN [rule |-> 2, how |-> "return", text |-> Join(argv), readStdin |-> FALSE]
    ELSE IF ~isTTY
    THEN [rule |-> 3, how |-> "return", text |-> stdinText, readStdin |-> TRUE]
    ELSE [rule |-> 4, how |-> "exit", text |-> NoCode, readStdin |-> FALSE]

----------------------------------------------------------------------------
(* State *)

Invocations == {1, 2}

VARIABLES
    disk,        \* the plugin directory: file name -> contents
    locked,      \* files whose unlink fails (in use, or not permitted)
    now,         \* Date.now()
    pc,          \* phase of each invocation of main
    listing,     \* cleanupOldTempFiles: "none", "ok", or "failed" (readdirSync raised)
    pending,     \* cleanupOldTempFiles: the listed temp files not yet visited
    unlinked,    \* files each invocation's cleanup removed
    checked,     \* checkPlaywrightInstalled: "unchecked", "present", "missing"
    installed,   \* installPlaywright: "notrun", "ok", "failed"
    input,       \* argv, stdin and the result of getCodeToExecute
    rawCode,
    code,
    tempFile,
    wrote,       \* fs.writeFileSync(tempFile, ...) succeeded
    loaded,      \* text the module loader read for require(tempFile)
    exitCode,    \* -1 while the process is alive
    report,      \* the failure the process reported, and who handled it
    wsrc,        \* normalization taken alone: argument
    wout,        \* normalization taken alone: result
    fmsg,        \* formatError taken alone: the error's message
    fout,        \* formatError taken alone: result
    customPorts, \* detectDevServers: its argument
    served,      \* what answers a probe on each of the ports in ServedPorts
    background,  \* what answers a probe on every other port
    dpc,         \* detectDevServers: "idle", "loop", "inflight", "returned", "rejected"
    allPorts,
    idx,         \* position of the for-of loop in allPorts
    detectedServers,
    probes,      \* the ports the loop body has run for, in order
    elapsed,     \* probe timeouts the scan has waited for
    rfn,         \* the retrying helper that was called
    rarg,        \* its retry count as the caller gave it
    rmax,        \* maxRetries
    ri,          \* the loop variable i
    rpc,         \* "idle", "loop", "waiting", "returned", "thrown"
    rlog,        \* the attempts and the delays, in order
    rret,        \* what the helper returned or threw
    mtimes,      \* mockAPIResponse: options.times
    mresp,       \* mockAPIResponse: is response data or a function
    mpc,         \* "idle", "routed", "unrouted"
    callCount,
    mlog,        \* what the route handler did with each intercepted request
    gwf,         \* the gt workflow command that is run
    genv,        \* the repository, the tools and the settings file it meets
    gset,        \* the settings in force
    gpc,         \* the step of the workflow
    gcmds,       \* the commands run so far
    gend         \* how the workflow ended

wrapVars == <<wsrc, wout>>
fmtVars == <<fmsg, fout>>
detVars == <<customPorts, served, background, dpc, allPorts, idx, detectedServers, probes, elapsed>>

retryVars == <<rfn, rarg, rmax, ri, rpc, rlog, rret>>
mockVars == <<mtimes, mresp, mpc, callCount, mlog>>
flowVars == <<gwf, genv, gset, gpc, gcmds, gend>>
otherVars == <<retryVars, mockVars, flowVars>>

\* state of the functions that are exercised on their own
aloneVars == <<wrapVars, fmtVars, detVars, otherVars>>

vars == <<disk, locked, now, pc, listing, pending, unlinked, checked, installed, input,
          rawCode, code, tempFile, wrote, loaded, exitCode, report, aloneVars>>

execVars == <<disk, locked, now, pc, listing, pending, unlinked, checked, installed, input,
              rawCode, code, tempFile, wrote, loaded, exitCode, report>>

NoInput == [argv |-> <<>>, isTTY |-> TRUE, stdinText |-> NoCode, rule |-> 0, readStdin |-> FALSE]
NoReport == [by |-> "none", origin |-> "none", error |-> <<>>, text |-> <<>>, stack |-> FALSE]

InitialClock == MaxStale + 1

ExecInit ==
    /\ \E n \in 0..MaxStale :
          /\ disk = [f \in OtherFiles \cup {TempName(t) : t \in 1..n} |->
                        IF IsTempFile(f) THEN StaleText ELSE OtherText]
          /\ locked \in SUBSET {TempName(t) : t \in 1..n}
    /\ now = InitialClock
    /\ pc = [p \in Invocations |-> "Idle"]
    /\ listing = [p \in Invocations |-> "none"]
    /\ pending = [p \in Invocations |-> <<>>]
    /\ unlinked = [p \in Invocations |-> {}]
    /\ checked = [p \in Invocations |-> "unchecked"]
    /\ installed = [p \in Invocations |-> "notrun"]
    /\ input = [p \in Invocations |-> NoInput]
    /\ rawCode = [p \in Invocations |-> NoCode]
    /\ code = [p \in Invocations |-> NoCode]
    /\ tempFile = [p \in Invocations |-> NoFile]
    /\ wrote = [p \in Invocations |-> FALSE]
    /\ loaded = [p \in Invocations |-> NoCode]
    /\ exitCode = [p \in Invocations |-> -1]
    /\ report = [p \in Invocations |-> NoReport]

WrapIdle == wsrc = <<>> /\ wout = NoCode
FormatIdle == fmsg = <<>> /\ fout = NoCode

DetectIdle ==
    /\ customPorts = <<>>
    /\ served = <<>>
    /\ background = "refused"
    /\ dpc = "idle"
    /\ allPorts = <<>>
    /\ idx = 0
    /\ detectedServers = <<>>
    /\ probes = <<>>
    /\ elapsed = 0

NoArg == [given |-> FALSE, n |-> 0]
NoResult == [kind |-> "none", of |-> 0, wrapped |-> FALSE]

RetryIdle ==
    /\ rfn = "none"
    /\ rarg = NoArg
    /\ rmax = 0
    /\ ri = 0
    /\ rpc = "idle"
    /\ rlog = <<>>
    /\ rret = NoResult

MockIdle ==
    /\ mtimes = NoArg
    /\ mresp = "data"
    /\ mpc = "idle"
    /\ callCount = 0
    /\ mlog = <<>>

\* the settings used when .claude/gt-workflow.local.md does not exist
DefaultSettings ==
    [commit_style |-> "conventional", auto_submit |-> "always", tool_preference |-> "cli",
     dry_run |-> FALSE]
NoEnv ==
    [inRepo |-> TRUE, gtFound |-> TRUE, changes |-> TRUE, settingsFile |-> FALSE,
     fileSettings |-> DefaultSettings, createOk |-> TRUE, submitOk |-> TRUE]

FlowIdle ==
    /\ gwf = "none"
    /\ genv = NoEnv
    /\ gset = DefaultSettings
    /\ gpc = "idle"
    /\ gcmds = <<>>
    /\ gend = "running"

OtherIdle == RetryIdle /\ MockIdle /\ FlowIdle

Init ==
    /\ ExecInit
    /\ WrapIdle
    /\ FormatIdle
    /\ DetectIdle
    /\ OtherIdle

----------------------------------------------------------------------------
(* main *)

IsPrefix(pre, s) == Len(pre) <= Len(s) /\ SubSeq(s, 1, Len(pre)) = pre
IsSuffix(suf, s) == Len(suf) <= Len(s) /\ SubSeq(s, Len(s) - Len(suf) + 1, Len(s)) = suf

\* the text is one of the two templates of wrapCodeIfNeeded around some body,
\* so an error thrown in its entry is caught by the template's own handler
HasTemplateHandler(text) ==
    /\ IsPrefix(EntryOpen, text) \/ IsPrefix(ImportsText \o EntryOpen, text)
    /\ IsSuffix(CatchText, text)

\* process.exit(1) after a failure was reported
Fail(p, by, origin, error, text, stack) ==
    /\ pc' = [pc EXCEPT ![p] = "Failed"]
    /\ exitCode' = [exitCode EXCEPT ![p] = 1]
    /\ report' = [report EXCEPT ![p] =
                     [by |-> by, origin |-> origin, error |-> error, text |-> text, stack |-> stack]]

\* the filter keeps the names that do not end in .js
tempFiles_wrongSuffix(files) == {f \in files : f.pre = ".temp-execution-" /\ f.suf # ".js"}

\* the filter of cleanupOldTempFiles applied to a directory listing
tempFiles(files) == {f \in files : IsTempFile(f)}

\* main does not call cleanupOldTempFiles
StartCleanup_skipsCleanup(p, ioFaults) ==
    /\ pc[p] = "Idle"
    /\ pc' = [pc EXCEPT ![p] = "CheckingToolkit"]
    /\ UNCHANGED <<listing, pending, disk, locked, now, unlinked, checked, installed, input,
                   rawCode, code, tempFile, wrote, loaded, exitCode, report, aloneVars>>

\* main starts: cleanupOldTempFiles lists the directory and filters the
\* listing, or fs.readdirSync raises and the pass is skipped; ioFaults tells
\* whether the file system may fail the call
StartCleanup(p, ioFaults) ==
    /\ pc[p] = "Idle"
    /\ \/ LET files == Listing(tempFiles(DOMAIN disk))
          IN  /\ listing' = [listing EXCEPT ![p] = "ok"]
              /\ pending' = [pending EXCEPT ![p] = files]
              /\ pc' = [pc EXCEPT ![p] = IF files = <<>> THEN "CheckingToolkit" ELSE "CleaningStale"]
       \/ /\ ioFaults
          /\ listing' = [listing EXCEPT ![p] = "failed"]
          /\ pc' = [pc EXCEPT ![p] = "CheckingToolkit"]
          /\ UNCHANGED pending
    /\ UNCHANGED <<disk, locked, now, unlinked, checked, installed, input, rawCode, code,
                   tempFile, wrote, loaded, exitCode, report, aloneVars>>

\* a deletion that fails ends the pass: the try is around the forEach
UnlinkNext_stopsAtFailure(p) ==
    /\ pc[p] = "CleaningStale"
    /\ LET f == Head(pending[p])
           rest == Tail(pending[p])
       IN  IF f \in DOMAIN disk /\ f \notin locked
           THEN /\ disk' = Remove(disk, f)
                /\ unlinked' = [unlinked EXCEPT ![p] = @ \cup {f}]
                /\ pending' = [pending EXCEPT ![p] = rest]
                /\ pc' = [pc EXCEPT ![p] = IF rest = <<>> THEN "CheckingToolkit" ELSE "CleaningStale"]
           ELSE /\ pending' = [pending EXCEPT ![p] = <<>>]
                /\ pc' = [pc EXCEPT ![p] = "CheckingToolkit"]
                /\ UNCHANGED <<disk, unlinked>>
    /\ UNCHANGED <<listing, locked, now, checked, installed, input, rawCode, code,
                   tempFile, wrote, loaded, exitCode, report, aloneVars>>

\* one iteration of the forEach of cleanupOldTempFiles
UnlinkNext(p) ==
    /\ pc[p] = "CleaningStale"
    /\ LET f == Head(pending[p])
           rest == Tail(pending[p])
       IN  /\ IF f \in DOMAIN disk /\ f \notin locked
              THEN /\ disk' = Remove(disk, f)
                   /\ unlinked' = [unlinked EXCEPT ![p] = @ \cup {f}]
              ELSE UNCHANGED <<disk, unlinked>>
           /\ pending' = [pending EXCEPT ![p] = rest]
           /\ pc' = [pc EXCEPT ![p] = IF rest = <<>> THEN "CheckingToolkit" ELSE "CleaningStale"]
    /\ UNCHANGED <<listing, locked, now, checked, installed, input, rawCode, code,
                   tempFile, wrote, loaded, exitCode, report, aloneVars>>

\* a missing toolkit is noticed but installPlaywright is not called
CheckToolkit_skipsInstall(p) ==
    /\ pc[p] = "CheckingToolkit"
    /\ \E present \in BOOLEAN :
          /\ checked' = [checked EXCEPT ![p] = IF present THEN "present" ELSE "missing"]
          /\ pc' = [pc EXCEPT ![p] = "ResolvingInput"]
    /\ UNCHANGED <<listing, disk, locked, now, pending, unlinked, installed, input, rawCode, code,
                   tempFile, wrote, loaded, exitCode, report, aloneVars>>

CheckToolkit(p) ==
    /\ pc[p] = "CheckingToolkit"
    /\ \E present \in BOOLEAN :
          /\ checked' = [checked EXCEPT ![p] = IF present THEN "present" ELSE "missing"]
          /\ pc' = [pc EXCEPT ![p] = IF present THEN "ResolvingInput" ELSE "Installing"]
    /\ UNCHANGED <<listing, disk, locked, now, pending, unlinked, installed, input, rawCode, code,
                   tempFile, wrote, loaded, exitCode, report, aloneVars>>

\* the process.exit(1) after a failed install is missing
Install_continuesOnFailure(p) ==
    /\ pc[p] = "Installing"
    /\ \E ok \in BOOLEAN :
          /\ installed' = [installed EXCEPT ![p] = IF ok THEN "ok" ELSE "failed"]
          /\ pc' = [pc EXCEPT ![p] = "ResolvingInput"]
    /\ UNCHANGED <<listing, disk, locked, now, pending, unlinked, checked, input, rawCode, code,
                   tempFile, wrote, loaded, exitCode, report, aloneVars>>

\* a failed install sends main back to the toolkit check
Install_retriesOnFailure(p) ==
    /\ pc[p] = "Installing"
    /\ \E ok \in BOOLEAN :
          /\ installed' = [installed EXCEPT ![p] = IF ok THEN "ok" ELSE "failed"]
          /\ pc' = [pc EXCEPT ![p] = IF ok THEN "ResolvingInput" ELSE "CheckingToolkit"]
    /\ UNCHANGED <<listing, disk, locked, now, pending, unlinked, checked, input, rawCode, code,
                   tempFile, wrote, loaded, exitCode, report, aloneVars>>

Install(p) ==
    /\ pc[p] = "Installing"
    /\ \E ok \in BOOLEAN :
          /\ installed' = [installed EXCEPT ![p] = IF ok THEN "ok" ELSE "failed"]
          /\ IF ok
             THEN /\ pc' = [pc EXCEPT ![p] = "ResolvingInput"]
                  /\ UNCHANGED <<exitCode, report>>
             ELSE Fail(p, "install", "install", <<"npm install failed">>, <<"Failed to install Playwright:">>, FALSE)
    /\ UNCHANGED <<listing, disk, locked, now, pending, unlinked, checked, input, rawCode, code,
                   tempFile, wrote, loaded, aloneVars>>

\* getCodeToExecute, wrapCodeIfNeeded and the choice of the temp file's name;
\* envs is the set of environments (argv, stdin) the invocation may be given
ResolveInput(p, envs) ==
    /\ pc[p] = "ResolvingInput"
    /\ \E e \in envs :
          LET r == getCodeToExecute(e.argv, e.isTTY, e.stdinText)
          IN  /\ input' = [input EXCEPT ![p] =
                             [argv |-> e.argv, isTTY |-> e.isTTY,
                              stdinText |-> IF r.readStdin THEN e.stdinText ELSE NoCode,
                              rule |-> r.rule, readStdin |-> r.readStdin]]
              /\ IF r.how = "return"
                 THEN /\ rawCode' = [rawCode EXCEPT ![p] = r.text]
                      /\ code' = [code EXCEPT ![p] = wrapCodeIfNeeded(r.text)]
                      /\ tempFile' = [tempFile EXCEPT ![p] = TempName(now)]
                      /\ pc' = [pc EXCEPT ![p] = "Writing"]
                      /\ UNCHANGED <<exitCode, report>>
                 ELSE /\ IF r.how = "throw"
                         THEN Fail(p, "fatal", "input", IsADirectory, IsADirectory, FALSE)
                         ELSE Fail(p, "usage", "input", <<>>, <<"No code to execute">>, FALSE)
                      /\ UNCHANGED <<rawCode, code, tempFile>>
    /\ UNCHANGED <<listing, disk, locked, now, pending, unlinked, checked, installed,
                   wrote, loaded, aloneVars>>

\* fs.writeFileSync(tempFile, code); it may raise when ioFaults, and main's
\* catch then reports the failure
Write(p, ioFaults) ==
    /\ pc[p] = "Writing"
    /\ \/ /\ disk' = Put(disk, tempFile[p], code[p])
          /\ wrote' = [wrote EXCEPT ![p] = TRUE]
          /\ pc' = [pc EXCEPT ![p] = "Executing"]
          /\ UNCHANGED <<exitCode, report>>
       \/ /\ ioFaults
          /\ Fail(p, "main", "write", WriteFailed, formatError(WriteFailed), TRUE)
          /\ UNCHANGED <<disk, wrote>>
    /\ UNCHANGED <<listing, locked, now, pending, unlinked, checked, installed, input, rawCode, code,
                   tempFile, loaded, aloneVars>>

\* require(tempFile): the synchronous part of the unit's run
Load(p) ==
    /\ pc[p] = "Executing"
    /\ IF tempFile[p] \notin DOMAIN disk
       THEN /\ Fail(p, "main", "load", ModuleMissing, formatError(ModuleMissing), TRUE)
            /\ UNCHANGED loaded
       ELSE /\ loaded' = [loaded EXCEPT ![p] = disk[tempFile[p]]]
            /\ \/ /\ pc' = [pc EXCEPT ![p] = "Running"]
                  /\ UNCHANGED <<exitCode, report>>
               \/ \E m \in UnitMessages : Fail(p, "main", "unit", m, formatError(m), TRUE)
    /\ UNCHANGED <<listing, disk, locked, now, pending, unlinked, checked, installed, input, rawCode, code,
                   tempFile, wrote, aloneVars>>

\* main removes its own temp file once the unit has completed
Settle_unlinksOwnFile(p) ==
    /\ pc[p] = "Running"
    /\ \/ /\ pc' = [pc EXCEPT ![p] = "Success"]
          /\ exitCode' = [exitCode EXCEPT ![p] = 0]
          /\ disk' = Remove(disk, tempFile[p])
          /\ UNCHANGED report
       \/ /\ \E m \in UnitMessages, where \in {"entry", "detached"} :
                IF where = "entry" /\ HasTemplateHandler(loaded[p])
                THEN Fail(p, "wrapper", "unit", m, m, TRUE)
                ELSE Fail(p, "runtime", "unit", m, m, TRUE)
          /\ UNCHANGED disk
    /\ UNCHANGED <<listing, locked, now, pending, unlinked, checked, installed, input, rawCode, code,
                   tempFile, wrote, loaded, aloneVars>>

\* the unit's asynchronous work ends: it completes, or throws either in the
\* entry the template awaits ("entry") or in a promise nothing awaits
Settle(p) ==
    /\ pc[p] = "Running"
    /\ \/ /\ pc' = [pc EXCEPT ![p] = "Success"]
          /\ exitCode' = [exitCode EXCEPT ![p] = 0]
          /\ UNCHANGED report
       \/ \E m \in UnitMessages, where \in {"entry", "detached"} :
             IF where = "entry" /\ HasTemplateHandler(loaded[p])
             THEN Fail(p, "wrapper", "unit", m, m, TRUE)
             ELSE Fail(p, "runtime", "unit", m, m, TRUE)
    /\ UNCHANGED <<listing, disk, locked, now, pending, unlinked, checked, installed, input, rawCode, code,
                   tempFile, wrote, loaded, aloneVars>>

Tick ==
    /\ now < InitialClock + MaxTime
    /\ now' = now + 1
    /\ UNCHANGED <<listing, disk, locked, pc, pending, unlinked, checked, installed, input, rawCode, code,
                   tempFile, wrote, loaded, exitCode, report, aloneVars>>

Step(p, envs, ioFaults) ==
    \/ StartCleanup(p, ioFaults)
    \/ UnlinkNext(p)
    \/ CheckToolkit(p)
    \/ Install(p)
    \/ ResolveInput(p, envs)
    \/ Write(p, ioFaults)
    \/ Load(p)
    \/ Settle(p)

\* one invocation of the executor, alone in the plugin directory
Next == Tick \/ Step(1, Envs, TRUE)

Spec == Init /\ [][Next]_vars

\* invocations of the executor, one after another or concurrently, in one
\* plugin directory whose file system does not fail
NextRace == Tick \/ \E p \in Invocations : Step(p, RaceEnvs, FALSE)

\* every stale file can be deleted
RaceInit == Init /\ locked = {}

SpecRace == RaceInit /\ [][NextRace]_vars

----------------------------------------------------------------------------
(* Normalization taken alone, over every source text up to MaxLen tokens *)

WrapInit ==
    /\ ExecInit
    /\ DOMAIN disk = OtherFiles
    /\ wsrc \in Sources
    /\ wout = NoCode
    /\ FormatIdle
    /\ DetectIdle
    /\ OtherIdle

Normalize ==
    /\ wout = NoCode
    /\ wout' = wrapCodeIfNeeded(wsrc)
    /\ UNCHANGED <<execVars, wsrc, fmtVars, detVars, otherVars>>

SpecWrap == WrapInit /\ [][Normalize]_vars

----------------------------------------------------------------------------
(* detectDevServers (plugins/playwright/lib/helpers.js) *)

commonPorts == <<3000, 3001, 3002, 5173, 5174, 8080, 8000, 4200, 5000, 9000, 1234, 4321, 3333>>

Range(seq) == {seq[i] : i \in 1..Len(seq)}

\* the Set is dropped: [...commonPorts, ...customPorts]
Dedup_keepsDuplicates(seq) == seq

\* [...new Set(seq)]: the first occurrence of each value, in order
RECURSIVE Dedup(_)
Dedup(seq) ==
    IF seq = <<>> THEN <<>>
    ELSE <<Head(seq)>> \o Dedup(SelectSeq(Tail(seq), LAMBDA v : v # Head(seq)))

\* a baseline port, a port that is not in the baseline, and a number that
\* http.request refuses as a port
CustomVals == {3000, 7000, 70000}
CustomLists == SeqsUpTo(CustomVals, MaxCustom)

\* http.request throws ERR_SOCKET_BAD_PORT for any other port option
ValidPort(port) == port \in 0..65535

\* the ports whose listener varies; every other port behaves as background
ServedPorts == {3000, 5173, 7000}

Response(status) == [kind |-> "response", status |-> status]
Refused == [kind |-> "error", status |-> 0]        \* ECONNREFUSED
Reset == [kind |-> "reset", status |-> 0]          \* ECONNRESET, an 'error' event as well
Hang == [kind |-> "hang", status |-> 0]            \* accepts and never answers
Outcomes == {Response(200), Response(499), Response(500), Refused, Reset, Hang}

Outcome(port) ==
    IF port \in ServedPorts THEN served[port]
    ELSE IF background = "hang" THEN Hang ELSE Refused

Url(port) == <<"http://localhost:", port>>

DetectInit ==
    /\ ExecInit
    /\ DOMAIN disk = OtherFiles
    /\ WrapIdle
    /\ FormatIdle
    /\ DetectIdle
    /\ OtherIdle

detFrame == <<execVars, wrapVars, fmtVars, otherVars, customPorts, served, background>>

\* the function is called with customPorts, on a machine whose ports answer
\* as served and background say: the candidate list is built
DetectStart ==
    /\ dpc = "idle"
    /\ customPorts' \in CustomLists
    /\ served' \in [ServedPorts -> Outcomes]
    /\ background' \in {"refused", "hang"}
    /\ allPorts' = Dedup(commonPorts \o customPorts')
    /\ detectedServers' = <<>>
    /\ idx' = 1
    /\ dpc' = "loop"
    /\ UNCHANGED <<execVars, wrapVars, fmtVars, otherVars, probes, elapsed>>

\* the exception of http.request leaves the function
IssueProbe_uncaughtThrow ==
    /\ dpc = "loop" /\ idx <= Len(allPorts)
    /\ probes' = Append(probes, allPorts[idx])
    /\ IF ValidPort(allPorts[idx])
       THEN dpc' = "inflight" /\ UNCHANGED idx
       ELSE dpc' = "rejected" /\ UNCHANGED idx
    /\ UNCHANGED <<detFrame, allPorts, detectedServers, elapsed>>

\* the promise of the probe is not awaited: the loop goes on at once
IssueProbe_withoutAwait ==
    /\ dpc = "loop" /\ idx <= Len(allPorts)
    /\ probes' = Append(probes, allPorts[idx])
    /\ dpc' = "loop" /\ idx' = idx + 1
    /\ UNCHANGED <<detFrame, allPorts, detectedServers, elapsed>>

\* the loop body starts for the next port: the request is sent, or
\* http.request throws inside the promise executor and the catch of the
\* loop body swallows the rejection
IssueProbe ==
    /\ dpc = "loop" /\ idx <= Len(allPorts)
    /\ probes' = Append(probes, allPorts[idx])
    /\ IF ValidPort(allPorts[idx])
       THEN dpc' = "inflight" /\ UNCHANGED idx
       ELSE dpc' = "loop" /\ idx' = idx + 1
    /\ UNCHANGED <<detFrame, allPorts, detectedServers, elapsed>>

\* the comparison is <= 500
ProbeResponded_statusUpTo500 ==
    /\ dpc = "inflight"
    /\ Outcome(allPorts[idx]).kind = "response"
    /\ detectedServers' = IF Outcome(allPorts[idx]).status <= 500
                          THEN Append(detectedServers, Url(allPorts[idx]))
                          ELSE detectedServers
    /\ idx' = idx + 1
    /\ dpc' = "loop"
    /\ UNCHANGED <<detFrame, allPorts, probes, elapsed>>

\* the response callback
ProbeResponded ==
    /\ dpc = "inflight"
    /\ Outcome(allPorts[idx]).kind = "response"
    /\ detectedServers' = IF Outcome(allPorts[idx]).status < 500
                          THEN Append(detectedServers, Url(allPorts[idx]))
                          ELSE detectedServers
    /\ idx' = idx + 1
    /\ dpc' = "loop"
    /\ UNCHANGED <<detFrame, allPorts, probes, elapsed>>

\* req.on('error')
ProbeErrored ==
    /\ dpc = "inflight"
    /\ Outcome(allPorts[idx]).kind \in {"error", "reset"}
    /\ idx' = idx + 1
    /\ dpc' = "loop"
    /\ UNCHANGED <<detFrame, allPorts, detectedServers, probes, elapsed>>

\* the timeout handler ends the scan
ProbeTimedOut_abortsScan ==
    /\ dpc = "inflight"
    /\ Outcome(allPorts[idx]).kind = "hang"
    /\ elapsed' = elapsed + 1
    /\ dpc' = "returned"
    /\ UNCHANGED <<detFrame, allPorts, idx, detectedServers, probes>>

\* req.on('timeout'), after the 500 ms of the timeout option
ProbeTimedOut ==
    /\ dpc = "inflight"
    /\ Outcome(allPorts[idx]).kind = "hang"
    /\ elapsed' = elapsed + 1
    /\ idx' = idx + 1
    /\ dpc' = "loop"
    /\ UNCHANGED <<detFrame, allPorts, detectedServers, probes>>

\* the loop is over: return detectedServers
DetectReturn ==
    /\ dpc = "loop" /\ idx > Len(allPorts)
    /\ dpc' = "returned"
    /\ UNCHANGED <<detFrame, allPorts, idx, detectedServers, probes, elapsed>>

DetectNext ==
    \/ DetectStart
    \/ IssueProbe
    \/ ProbeResponded
    \/ ProbeErrored
    \/ ProbeTimedOut
    \/ DetectReturn

SpecDetect == DetectInit /\ [][DetectNext]_vars

\* the event loop runs every callback that is due, and the timer of a
\* request's timeout option fires
SpecDetectFair == SpecDetect /\ WF_vars(DetectNext)

Returned == dpc = "returned"

\* a HEAD request to the port gets a response with a status below 500
Reachable(port) ==
    ValidPort(port) /\ Outcome(port).kind = "response" /\ Outcome(port).status < 500

Urls(ports) == [i \in 1..Len(ports) |-> Url(ports[i])]
Occurrences(seq, v) == Cardinality({i \in 1..Len(seq) : seq[i] = v})
FirstIndex(seq, v) == CHOOSE i \in 1..Len(seq) : seq[i] = v /\ \A j \in 1..(i - 1) : seq[j] # v

\* C14: the result is the list of http://localhost:<port> of exactly the
\* candidates whose probe got a response with a status below 500, in
\* candidate order; it is empty when there is none, and holds all of them
\* when there are several
C14_ResultIsReachablePorts ==
    Returned =>
        /\ detectedServers = Urls(SelectSeq(allPorts, Reachable))
        /\ \A i \in 1..Len(allPorts) :
              Outcome(allPorts[i]).kind # "response" \/ Outcome(allPorts[i]).status >= 500
                 => Url(allPorts[i]) \notin Range(detectedServers)
        /\ (\A i \in 1..Len(allPorts) : ~Reachable(allPorts[i])) => detectedServers = <<>>

\* two ports answer below 500, one of them with a client error, and a
\* candidate in between answers with 500
C14_Witness ==
    /\ Returned
    /\ served[3000] = Response(499) /\ served[5173] = Response(500) /\ served[7000] = Response(200)
    /\ detectedServers = <<Url(3000), Url(7000)>>

\* C15: whatever the probes meet (response, connection error, timeout, or a
\* port that http.request rejects), the scan ends by returning its list; it
\* never ends with a rejection
C15_ScanAlwaysReturns == <>[]Returned

C15_Witness ==
    /\ Returned
    /\ 70000 \in Range(probes)
    /\ served[3000] = Hang /\ served[5173] = Reset /\ served[7000] = Refused
    /\ background = "hang"

\* C16: the loop body runs exactly once for each distinct port of the
\* baseline and customPorts, the baseline ports first in their fixed order,
\* then the new custom ports in the order of their first occurrence
C16_CandidatesAreDedupedUnion ==
    Returned =>
        /\ Range(probes) = Range(commonPorts) \cup Range(customPorts)
        /\ \A port \in Range(probes) : Occurrences(probes, port) = 1
        /\ SubSeq(probes, 1, Len(commonPorts)) = commonPorts
        /\ \A i \in 1..Len(probes), j \in 1..Len(probes) :
              (Len(commonPorts) < i /\ i < j) =>
                  FirstIndex(customPorts, probes[i]) < FirstIndex(customPorts, probes[j])
        /\ probes = allPorts

\* customPorts repeats a baseline port after a new port
C16_Witness ==
    /\ Returned
    /\ customPorts = <<7000, 3000>>
    /\ Len(probes) = Len(commonPorts) + 1

\* candidates whose probe hangs until its timeout
Hanging == {port \in Range(allPorts) : ValidPort(port) /\ Outcome(port).kind = "hang"}

\* C17: when a candidate's probe hangs until its timeout, the loop body
\* still runs for every other candidate, and each of them is in the result
\* exactly when its own probe got a response below 500
C17_HangDoesNotAffectOthers ==
    (Returned /\ Hanging # {}) =>
        \A h \in Hanging : \A port \in Range(allPorts) \ {h} :
            /\ Occurrences(probes, port) = 1
            /\ Url(port) \in Range(detectedServers) <=> Reachable(port)
            /\ Url(h) \notin Range(detectedServers)

\* the first candidate hangs and a later one is reachable
C17_Witness ==
    /\ Returned
    /\ served[3000] = Hang /\ served[7000] = Response(200) /\ background = "refused"
    /\ Url(7000) \in Range(detectedServers)

\* probes issued and not yet settled, or given up by the catch
InFlight == Len(probes) - (idx - 1)

NoDuplicates(seq) == \A i \in 1..Len(seq), j \in 1..Len(seq) : seq[i] = seq[j] => i = j

\* C28: a probe is issued only when every earlier probe has settled, and for
\* the next candidate in order; the loop moves on from a candidate only when
\* its probe settles (or http.request refused the port); at most one probe
\* is in flight; a URL is appended only by the probe in flight, once, at the
\* end of the list; the list never holds a URL twice
C28_ProbesAreSequential ==
    [][/\ probes' # probes =>
            /\ dpc = "loop" /\ InFlight = 0
            /\ probes' = Append(probes, allPorts[Len(probes) + 1])
            /\ ValidPort(allPorts[idx]) => (dpc' = "inflight" /\ idx' = idx)
       /\ (dpc # "idle" /\ idx' # idx) =>
            /\ idx' = idx + 1
            /\ dpc = "inflight" \/ ~ValidPort(allPorts[idx])
       /\ dpc' # "idle" => (InFlight' \in {0, 1} /\ (InFlight' = 1 <=> dpc' = "inflight"))
       /\ detectedServers' # detectedServers =>
            /\ dpc = "inflight" /\ dpc' = "loop"
            /\ detectedServers' = Append(detectedServers, Url(allPorts[idx]))
       /\ NoDuplicates(detectedServers')]_vars

\* three probes answered one after another, each adding its URL
C28_Witness ==
    /\ Returned
    /\ Len(detectedServers) = Cardinality(ServedPorts)
    /\ customPorts = <<7000, 7000>>

\* C18: the scan waits for fewer timeout periods than there are candidate
\* ports, however many of the probes hang
C18_ScanTimeBelowPortCount ==
    Returned => elapsed < Len(allPorts)

----------------------------------------------------------------------------
(* formatError taken alone, over every message up to MaxMsgLen tokens *)

\* the patterns of the table, a word that differs from one only in case,
\* and a word that matches nothing
MsgTok == {Suggestions[i].pattern : i \in 1..Len(Suggestions)} \cup {"timeout", "boom"}
Messages == SeqsUpTo(MsgTok, MaxMsgLen)

FormatInit ==
    /\ ExecInit
    /\ DOMAIN disk = OtherFiles
    /\ WrapIdle
    /\ fmsg \in Messages
    /\ fout = NoCode
    /\ DetectIdle
    /\ OtherIdle

Format ==
    /\ fout = NoCode
    /\ fout' = formatError(fmsg)
    /\ UNCHANGED <<execVars, wrapVars, fmsg, detVars, otherVars>>

SpecFormat == FormatInit /\ [][Format]_vars

\* C13: the table is an ordered list of (pattern, hint) pairs; the result is
\* the message followed by the hint of the first pattern, in table order,
\* that occurs in the message, and the message itself when none occurs
C13_FirstMatchingPatternWins ==
    fout # NoCode =>
        /\ (\A i \in 1..Len(Suggestions) : ~Includes(fmsg, <<Suggestions[i].pattern>>)) => fout = fmsg
        /\ \A i \in 1..Len(Suggestions) :
              (/\ Includes(fmsg, <<Suggestions[i].pattern>>)
               /\ \A j \in 1..(i - 1) : ~Includes(fmsg, <<Suggestions[j].pattern>>)) =>
                  fout = fmsg \o <<"\n\nSuggestion: ", Suggestions[i].hint>>
        /\ IsPrefix(fmsg, fout) /\ Len(fout) \in {Len(fmsg), Len(fmsg) + 2}

\* a message in which a later row of the table occurs before an earlier one
C13_Witness ==
    /\ fmsg = <<"Timeout", "Target closed">>
    /\ fout = fmsg \o <<"\n\nSuggestion: ", Suggestions[1].hint>>

----------------------------------------------------------------------------
(* navigateWithRetry, safeClick and retryWithBackoff                       *)
(* (plugins/playwright/lib/helpers.js)                                     *)

\* the retry count of `options.retries || 3` and of `maxRetries = 3`
DefaultRetries == 3

RetryFns == {"navigateWithRetry", "safeClick", "retryWithBackoff"}

\* the retry count the caller passes: none, or a number from 0 to MaxRetries
RetryArgs == {NoArg} \cup {[given |-> TRUE, n |-> k] : k \in 0..MaxRetries}

\* arg || d
OrDefault(arg, d) == IF arg.given /\ arg.n # 0 THEN arg.n ELSE d

\* a parameter with the default value d
ParamDefault(arg, d) == IF arg.given THEN arg.n ELSE d

maxRetriesOf(fn, arg) ==
    IF fn = "retryWithBackoff" THEN ParamDefault(arg, DefaultRetries)
    ELSE OrDefault(arg, DefaultRetries)

\* how the body of the try can end
AttemptOutcomes(fn) ==
    CASE fn = "navigateWithRetry" -> {"ok", "goto failed"}
      [] fn = "safeClick" -> {"ok", "waitForSelector failed", "click failed"}
      [] OTHER -> {"ok", "fn failed"}

RECURSIVE Pow2(_)
Pow2(n) == IF n = 0 THEN 1 ELSE 2 * Pow2(n - 1)

\* the argument of delay(), in units of retryDelay or of initialDelay
delayOf(fn, i) == IF fn = "retryWithBackoff" THEN Pow2(i) ELSE 1

Attempt(i, out) == [ev |-> "attempt", i |-> i, out |-> out, ms |-> 0]
Delay(i, ms) == [ev |-> "delay", i |-> i, out |-> "", ms |-> ms]

RetryInit ==
    /\ ExecInit
    /\ DOMAIN disk = OtherFiles
    /\ WrapIdle
    /\ FormatIdle
    /\ DetectIdle
    /\ OtherIdle

retryFrame == <<execVars, wrapVars, fmtVars, detVars, mockVars, flowVars>>

\* the helper is called
RetryCall ==
    /\ rpc = "idle"
    /\ \E fn \in RetryFns, arg \in RetryArgs :
          /\ rfn' = fn
          /\ rarg' = arg
          /\ rmax' = maxRetriesOf(fn, arg)
    /\ ri' = 0
    /\ rpc' = "loop"
    /\ UNCHANGED <<retryFrame, rlog, rret>>

\* the test for the last attempt is i === maxRetries
RetryAttempt_lastTestOffByOne ==
    /\ rpc = "loop" /\ ri < rmax
    /\ \E out \in AttemptOutcomes(rfn) :
          /\ rlog' = Append(rlog, Attempt(ri, out))
          /\ IF out = "ok"
             THEN /\ rpc' = "returned"
                  /\ rret' = [kind |-> "value", of |-> ri, wrapped |-> FALSE]
             ELSE IF rfn = "retryWithBackoff"
             THEN /\ rpc' = "waiting"
                  /\ rret' = [kind |-> "lastError", of |-> ri, wrapped |-> FALSE]
             ELSE IF ri = rmax
             THEN /\ rpc' = "thrown"
                  /\ rret' = [kind |-> "error", of |-> ri, wrapped |-> rfn = "navigateWithRetry"]
             ELSE /\ rpc' = "waiting"
                  /\ UNCHANGED rret
    /\ UNCHANGED <<retryFrame, rfn, rarg, rmax, ri>>

\* lastError keeps the first error (lastError = lastError || error)
RetryAttempt_keepsFirstError ==
    /\ rpc = "loop" /\ ri < rmax
    /\ \E out \in AttemptOutcomes(rfn) :
          /\ rlog' = Append(rlog, Attempt(ri, out))
          /\ IF out = "ok"
             THEN /\ rpc' = "returned"
                  /\ rret' = [kind |-> "value", of |-> ri, wrapped |-> FALSE]
             ELSE IF rfn = "retryWithBackoff"
             THEN /\ rpc' = "waiting"
                  /\ rret' = IF rret.kind = "lastError" THEN rret
                             ELSE [kind |-> "lastError", of |-> ri, wrapped |-> FALSE]
             ELSE IF ri = rmax - 1
             THEN /\ rpc' = "thrown"
                  /\ rret' = [kind |-> "error", of |-> ri, wrapped |-> rfn = "navigateWithRetry"]
             ELSE /\ rpc' = "waiting"
                  /\ UNCHANGED rret
    /\ UNCHANGED <<retryFrame, rfn, rarg, rmax, ri>>

\* one pass through the try of the loop body: the attempt succeeds and the
\* helper returns, or it fails and the catch runs up to its delay() (for
\* navigateWithRetry and safeClick the catch of the last attempt throws)
RetryAttempt ==
    /\ rpc = "loop" /\ ri < rmax
    /\ \E out \in AttemptOutcomes(rfn) :
          /\ rlog' = Append(rlog, Attempt(ri, out))
          /\ IF out = "ok"
             THEN /\ rpc' = "returned"
                  /\ rret' = [kind |-> "value", of |-> ri, wrapped |-> FALSE]
             ELSE IF rfn = "retryWithBackoff"
             THEN /\ rpc' = "waiting"
                  /\ rret' = [kind |-> "lastError", of |-> ri, wrapped |-> FALSE]
             ELSE IF ri = rmax - 1
             THEN /\ rpc' = "thrown"
                  /\ rret' = [kind |-> "error", of |-> ri, wrapped |-> rfn = "navigateWithRetry"]
             ELSE /\ rpc' = "waiting"
                  /\ UNCHANGED rret
    /\ UNCHANGED <<retryFrame, rfn, rarg, rmax, ri>>

\* the delay() of the catch is over: i++
RetryDelay ==
    /\ rpc = "waiting"
    /\ rlog' = Append(rlog, Delay(ri, delayOf(rfn, ri)))
    /\ ri' = ri + 1
    /\ rpc' = "loop"
    /\ UNCHANGED <<retryFrame, rfn, rarg, rmax, rret>>

\* retryWithBackoff leaves its loop: throw lastError
RetryExhausted ==
    /\ rpc = "loop" /\ ri >= rmax
    /\ rfn = "retryWithBackoff"
    /\ rpc' = "thrown"
    /\ rret' = IF rret.kind = "lastError" THEN [rret EXCEPT !.kind = "error"]
               ELSE [kind |-> "undefined", of |-> 0, wrapped |-> FALSE]
    /\ UNCHANGED <<retryFrame, rfn, rarg, rmax, ri, rlog>>

RetryNext == RetryCall \/ RetryAttempt \/ RetryDelay \/ RetryExhausted

SpecRetry == RetryInit /\ [][RetryNext]_vars

\* the awaited call settles and the timer of delay() fires
SpecRetryFair == SpecRetry /\ WF_vars(RetryNext)

\* the calls the helper has made so far
Attempts == SelectSeq(rlog, LAMBDA e : e.ev = "attempt")
Failed(e) == e.ev = "attempt" /\ e.out # "ok"
RetryEnded == rpc \in {"returned", "thrown"}

\* C26: navigateWithRetry and safeClick take maxRetries from options.retries
\* (3 when it is absent), make at most maxRetries attempts, return at the
\* first attempt that succeeds, wait one retryDelay after a failed attempt
\* and before the next one, and throw at the failure of attempt number
\* maxRetries, with no wait after it
C26_RetriesAreBounded ==
    rfn \in {"navigateWithRetry", "safeClick"} =>
        /\ rmax = (IF rarg.given /\ rarg.n > 0 THEN rarg.n ELSE DefaultRetries)
        /\ Len(Attempts) <= rmax
        /\ \A k \in 1..Len(Attempts) : Attempts[k].i = k - 1
        /\ \A k \in 1..Len(rlog) : rlog[k].out = "ok" => (k = Len(rlog) /\ rpc = "returned")
        /\ rpc = "returned" =>
              (rlog # <<>> /\ rlog[Len(rlog)].out = "ok" /\ rret.kind = "value")
        /\ \A k \in 1..(Len(rlog) - 1) :
              /\ Failed(rlog[k]) => rlog[k + 1] = Delay(rlog[k].i, 1)
              /\ rlog[k].ev = "delay" => rlog[k + 1].ev = "attempt"
        /\ rpc = "waiting" => Len(Attempts) < rmax
        /\ rpc = "thrown" =>
              /\ Len(Attempts) = rmax
              /\ \A k \in 1..rmax : Failed(Attempts[k])
              /\ Failed(rlog[Len(rlog)])
              /\ rret.kind = "error" /\ rret.of = rmax - 1

\* safeClick without options.retries: two failures, two waits, and the third
\* attempt succeeds
C26_Witness ==
    /\ rfn = "safeClick" /\ ~rarg.given
    /\ rpc = "returned"
    /\ Len(rlog) = 5 /\ rret.of = 2
    /\ rlog[1].out = "waitForSelector failed" /\ rlog[3].out = "click failed"

\* what C29 says of every state of a call of retryWithBackoff
RetryWithBackoffBounded ==
    rfn = "retryWithBackoff" =>
        /\ Len(Attempts) <= rmax
        /\ \A k \in 1..Len(rlog) : rlog[k].out = "ok" => (k = Len(rlog) /\ rpc = "returned")
        /\ rpc = "returned" =>
              /\ rlog # <<>> /\ rlog[Len(rlog)].out = "ok"
              /\ rret = [kind |-> "value", of |-> Len(Attempts) - 1, wrapped |-> FALSE]
        /\ rpc = "thrown" =>
              /\ Len(Attempts) = rmax
              /\ \A k \in 1..rmax : Failed(Attempts[k])
              /\ rmax > 0 => rret = [kind |-> "error", of |-> rmax - 1, wrapped |-> FALSE]

\* C29: retryWithBackoff calls fn at most maxRetries times, returns the value
\* of the first call that succeeds and calls fn no more, throws the error of
\* the last call when all maxRetries calls fail, and every call of it ends
C29_BackoffTerminates ==
    /\ []RetryWithBackoffBounded
    /\ <>RetryEnded

\* three calls failed and the error of the third is thrown
C29_Witness ==
    /\ rfn = "retryWithBackoff" /\ rmax = DefaultRetries
    /\ rpc = "thrown" /\ rret.of = DefaultRetries - 1
    /\ Len(rlog) = 2 * DefaultRetries

----------------------------------------------------------------------------
(* mockAPIResponse (plugins/playwright/lib/helpers.js) *)

\* options.times: absent (the default Infinity), or a number up to MaxTimes
TimesArgs == {NoArg} \cup {[given |-> TRUE, n |-> k] : k \in 0..MaxTimes}

\* callCount > times
Exceeds(count, times) == times.given /\ count > times.n

MockInit ==
    /\ ExecInit
    /\ DOMAIN disk = OtherFiles
    /\ WrapIdle
    /\ FormatIdle
    /\ DetectIdle
    /\ OtherIdle

mockFrame == <<execVars, wrapVars, fmtVars, detVars, retryVars, flowVars>>

\* mockAPIResponse(page, urlPattern, response, options): page.route installs
\* the handler
MockInstall ==
    /\ mpc = "idle"
    /\ mtimes' \in TimesArgs
    /\ mresp' \in {"data", "function"}
    /\ callCount' = 0
    /\ mpc' = "routed"
    /\ UNCHANGED <<mockFrame, mlog>>

\* only the requests that are fulfilled are counted
MockIntercept_countsFulfilledOnly ==
    /\ mpc = "routed"
    /\ Len(mlog) < MaxRequests
    /\ IF mtimes.given /\ callCount >= mtimes.n
       THEN /\ mlog' = Append(mlog, "continue")
            /\ UNCHANGED callCount
       ELSE /\ mlog' = Append(mlog, "fulfill")
            /\ callCount' = callCount + 1
    /\ UNCHANGED <<mockFrame, mtimes, mresp, mpc>>

\* the route handler runs for a request that matches urlPattern
MockIntercept ==
    /\ mpc = "routed"
    /\ Len(mlog) < MaxRequests
    /\ callCount' = callCount + 1
    /\ mlog' = Append(mlog, IF Exceeds(callCount', mtimes) THEN "continue" ELSE "fulfill")
    /\ UNCHANGED <<mockFrame, mtimes, mresp, mpc>>

\* unroute() of the returned handle
MockUnroute ==
    /\ mpc = "routed"
    /\ mpc' = "unrouted"
    /\ UNCHANGED <<mockFrame, mtimes, mresp, callCount, mlog>>

MockNext == MockInstall \/ MockIntercept \/ MockUnroute

SpecMock == MockInit /\ [][MockNext]_vars

\* C30: with times = n the first n intercepted requests are fulfilled with
\* the mock and every later one is passed through; without times every
\* request is fulfilled; getCallCount() is the number of intercepted
\* requests, the passed-through ones included
C30_MockFulfilsFirstNTimes ==
    /\ \A k \in 1..Len(mlog) :
          mlog[k] = (IF mtimes.given /\ k > mtimes.n THEN "continue" ELSE "fulfill")
    /\ callCount = Len(mlog)

\* times = 1: one request fulfilled, two passed through, three counted
C30_Witness ==
    /\ mtimes = [given |-> TRUE, n |-> 1]
    /\ mlog = <<"fulfill", "continue", "continue">>
    /\ callCount = 3

----------------------------------------------------------------------------
(* The gt-workflow commands: /gt-create (commands/gt-create.md),           *)
(* /gt-create-submit (commands/gt-create-submit.md) and the create-and-    *)
(* submit command that reads the settings file.  A command is the list of  *)
(* steps its file gives; a step runs its shell commands in order and ends  *)
(* the workflow where the file says to stop.                               *)

Create == "gt-create"
CreateSubmit == "gt-create-submit"
CreateSubmitSettings == "create-submit with settings"
Flows == {Create, CreateSubmit, CreateSubmitSettings}

\* the commands that read the settings file
ReadsSettings(wf) == wf \in {Create, CreateSubmitSettings}
\* the commands that have a submit step
Submits(wf) == wf \in {CreateSubmit, CreateSubmitSettings}

\* the values the settings reference allows
Settings ==
    [commit_style : {"conventional", "freeform"},
     auto_submit : {"always", "prompt", "never"},
     tool_preference : {"cli", "mcp", "auto"},
     dry_run : BOOLEAN]

\* what a run can meet: the directory, the tools, the working tree, the
\* settings file, and how gt create and gt submit end
FlowEnvs ==
    {e \in [inRepo : BOOLEAN, gtFound : BOOLEAN, changes : BOOLEAN, settingsFile : BOOLEAN,
            fileSettings : Settings, createOk : BOOLEAN, submitOk : BOOLEAN] :
        ~e.settingsFile => e.fileSettings = DefaultSettings}

FlowInit ==
    /\ ExecInit
    /\ DOMAIN disk = OtherFiles
    /\ WrapIdle
    /\ FormatIdle
    /\ DetectIdle
    /\ OtherIdle

flowFrame == <<execVars, wrapVars, fmtVars, detVars, retryVars, mockVars>>

Run(cmds) == gcmds' = gcmds \o cmds
Go(step) == gpc' = step /\ UNCHANGED gend
Stop(how) == gpc' = "ended" /\ gend' = how

\* the user runs one of the commands
FlowStart ==
    /\ gpc = "idle"
    /\ gwf' \in Flows
    /\ genv' \in FlowEnvs
    /\ gpc' = "validate"
    /\ UNCHANGED <<flowFrame, gset, gcmds, gend>>

\* step 1, validate environment
FlowValidate ==
    /\ gpc = "validate"
    /\ IF ~genv.inRepo
       THEN Run(<<"git rev-parse">>) /\ Stop("not in a git repository")
       ELSE IF ~genv.gtFound
       THEN Run(<<"git rev-parse", "gt --version">>) /\ Stop("gt not found")
       ELSE /\ Run(<<"git rev-parse", "gt --version">>)
            /\ Go(IF ReadsSettings(gwf) THEN "settings" ELSE "changes")
    /\ UNCHANGED <<flowFrame, gwf, genv, gset>>

\* step 2, read settings: the file's settings, or the defaults when there is
\* no file.  For a missing file the step says "use defaults" and the error
\* list of the same command says "show example settings file and exit": a
\* run follows the one or the other
FlowReadSettings ==
    /\ gpc = "settings"
    /\ IF genv.settingsFile
       THEN gset' = genv.fileSettings /\ Go("changes")
       ELSE \/ gset' = DefaultSettings /\ Go("changes")
            \/ UNCHANGED gset /\ Stop("settings not found")
    /\ UNCHANGED <<flowFrame, gwf, genv, gcmds>>

\* check for changes
FlowCheckChanges ==
    /\ gpc = "changes"
    /\ IF genv.changes
       THEN Run(<<"git status", "git diff --stat">>) /\ Go("analyze")
       ELSE Run(<<"git status">>) /\ Stop("no changes")
    /\ UNCHANGED <<flowFrame, gwf, genv, gset>>

\* analyze the changes and generate the commit message
FlowAnalyze ==
    /\ gpc = "analyze"
    /\ Run(<<"git diff", "git diff --staged", "git log">>)
    /\ Go("create")
    /\ UNCHANGED <<flowFrame, gwf, genv, gset>>

\* a failure of gt create is shown and the workflow goes on
FlowCreate_ignoresFailure ==
    /\ gpc = "create"
    /\ IF ReadsSettings(gwf) /\ gset.dry_run
       THEN UNCHANGED gcmds /\ Stop("dry run")
       ELSE /\ Run(<<"gt create">>)
            /\ IF Submits(gwf) THEN Go("submit") ELSE Stop("created")
    /\ UNCHANGED <<flowFrame, gwf, genv, gset>>

\* dry_run is not looked at
FlowCreate_ignoresDryRun ==
    /\ gpc = "create"
    /\ Run(<<"gt create">>)
    /\ IF ~genv.createOk THEN Stop("gt create failed")
       ELSE IF Submits(gwf) THEN Go("submit") ELSE Stop("created")
    /\ UNCHANGED <<flowFrame, gwf, genv, gset>>

\* create the diff: nothing is run in a dry run; a failure of gt create stops
\* the workflow
FlowCreate ==
    /\ gpc = "create"
    /\ IF ReadsSettings(gwf) /\ gset.dry_run
       THEN UNCHANGED gcmds /\ Stop("dry run")
       ELSE /\ Run(<<"gt create">>)
            /\ IF ~genv.createOk THEN Stop("gt create failed")
               ELSE IF Submits(gwf) THEN Go("submit") ELSE Stop("created")
    /\ UNCHANGED <<flowFrame, gwf, genv, gset>>

\* submit the PR: always in /gt-create-submit, under auto_submit in the
\* command that reads the settings
FlowSubmit ==
    /\ gpc = "submit"
    /\ IF gwf = CreateSubmitSettings /\ gset.auto_submit # "always"
       THEN UNCHANGED gcmds /\ Stop("created")
       ELSE /\ Run(<<"gt submit">>)
            /\ Stop(IF genv.submitOk THEN "submitted" ELSE "gt submit failed")
    /\ UNCHANGED <<flowFrame, gwf, genv, gset>>

FlowNext ==
    \/ FlowStart
    \/ FlowValidate
    \/ FlowReadSettings
    \/ FlowCheckChanges
    \/ FlowAnalyze
    \/ FlowCreate
    \/ FlowSubmit

SpecFlow == FlowInit /\ [][FlowNext]_vars

\* the command was run
Ran(cmd) == \E i \in 1..Len(gcmds) : gcmds[i] = cmd
GtCommands == {"gt --version", "gt create", "gt submit"}
FlowEnded == gpc = "ended"

\* the settings the project is configured with
Configured == IF genv.settingsFile THEN genv.fileSettings ELSE DefaultSettings

\* gt submit was run last, after a gt create that succeeded; no run that
\* stopped early has run it
SubmitFollowsCreate ==
    /\ Ran("gt submit") =>
          /\ genv.inRepo /\ genv.gtFound /\ genv.changes /\ genv.createOk
          /\ gcmds[Len(gcmds)] = "gt submit"
          /\ \E i \in 1..(Len(gcmds) - 1) : gcmds[i] = "gt create"
    /\ gend \in {"not in a git repository", "gt not found", "no changes", "gt create failed"}
          => ~Ran("gt submit")

\* C22: in the create-and-submit commands gt submit is run only after a
\* gt create of the same run that succeeded; a run that stops at the
\* validation, at an unchanged working tree or at a failed gt create has not
\* run gt submit, and a stopped run runs nothing more
C22_SubmitOnlyAfterCreate ==
    [][Submits(gwf') => (SubmitFollowsCreate' /\ (FlowEnded => gcmds' = gcmds))]_vars

\* gt create failed in /gt-create-submit and the run stopped there
C22_Witness ==
    /\ gwf = CreateSubmit
    /\ gend = "gt create failed"
    /\ Ran("gt create") /\ ~Ran("gt submit")

C24_MissingSettingsFileMeansDefaults ==
    (ReadsSettings(gwf) /\ ~genv.settingsFile) =>
        /\ gend # "settings not found"
        /\ gpc \in {"changes", "analyze", "create", "submit"} => gset = DefaultSettings

----------------------------------------------------------------------------
(* Properties of normalization (SpecWrap) *)

Normalized == wout # NoCode
AsyncEntries(text) == Count(text, AsyncMark1) + Count(text, AsyncMark2)
\* what stands between the opening of the template's try-block and its handler
TryBody(text, opening) == SubSeq(text, Len(opening) + 1, Len(text) - Len(CatchText))

\* C7: a source with an asynchronous entry wrapper marker and no import
\* marker is returned unchanged
C7_EntryWithoutImportsUnchanged ==
    (Normalized /\ hasAsyncIIFE(wsrc) /\ ~hasRequire(wsrc)) => wout = wsrc

\* C8: a source that contains both an import marker and an asynchronous
\* entry wrapper marker is returned unchanged
C8_CompleteScriptUnchanged ==
    (Normalized /\ hasRequire(wsrc) /\ hasAsyncIIFE(wsrc)) => wout = wsrc

C8_Witness ==
    /\ Normalized
    /\ hasRequire(wsrc) /\ Includes(wsrc, AsyncMark2)
    /\ wout = wsrc

\* C9: a source with neither marker comes out as the toolkit import, the
\* helper-library import and exactly one asynchronous entry whose try-block
\* holds the source verbatim, closed by a handler that prints the error and
\* exits non-zero
C9_BareSourceFullyWrapped ==
    (Normalized /\ ~hasRequire(wsrc) /\ ~hasAsyncIIFE(wsrc)) =>
        /\ IsPrefix(ImportsText \o EntryOpen, wout)
        /\ Includes(ImportsText, <<"require", "(", "'playwright');\nconst helpers = ">>)
        /\ Count(wout, RequireMark) = 2
        /\ AsyncEntries(wout) = 1
        /\ TryBody(wout, ImportsText \o EntryOpen) = wsrc
        /\ IsSuffix(CatchText, wout)
        /\ Includes(CatchText, <<"console.error('Automation error:', error.message);">>)
        /\ Includes(CatchText, <<"process.exit(1);">>)
        /\ Len(wout) = Len(ImportsText) + Len(EntryOpen) + Len(wsrc) + Len(CatchText)

C9_Witness ==
    /\ Normalized
    /\ wsrc = <<"x", "require", "x", "async () => {">>
    /\ TryBody(wout, ImportsText \o EntryOpen) = wsrc

\* C10: a source with an import marker and no entry wrapper marker comes out
\* as the asynchronous entry and failure handler around the source verbatim,
\* with no import added
C10_ImportsOnlyEntryWrapped ==
    (Normalized /\ hasRequire(wsrc) /\ ~hasAsyncIIFE(wsrc)) =>
        /\ IsPrefix(EntryOpen, wout)
        /\ TryBody(wout, EntryOpen) = wsrc
        /\ IsSuffix(CatchText, wout)
        /\ AsyncEntries(wout) = 1
        /\ Count(wout, RequireMark) = Count(wsrc, RequireMark)
        /\ ~Includes(wout, <<"'playwright');\nconst helpers = ">>)
        /\ Len(wout) = Len(EntryOpen) + Len(wsrc) + Len(CatchText)

C10_Witness ==
    /\ Normalized
    /\ wsrc = <<"require", "(", "x">>
    /\ wout = EntryOpen \o wsrc \o CatchText

\* C27: every output of the normalization holds an import marker and an
\* entry marker, and normalizing it again gives it back unchanged
C27_NormalizationIsIdempotent ==
    Normalized =>
        /\ hasRequire(wout) /\ hasAsyncIIFE(wout)
        /\ wrapCodeIfNeeded(wout) = wout

\* a source that was wrapped, whose second normalization changes nothing
C27_Witness ==
    /\ Normalized
    /\ ~hasRequire(wsrc) /\ hasAsyncIIFE(wsrc)
    /\ wout # wsrc
    /\ wrapCodeIfNeeded(wout) = wout

----------------------------------------------------------------------------
(* Properties of one invocation (Spec) *)

Ended(p) == pc[p] \in {"Success", "Failed"}
Resolved(p) == input[p].rule # 0
IsExistingFile(path) == existsSync(path) /\ ~isDirectory(path)

\* C1: the source is resolved by the first matching rule: the file named by
\* the first argument, else the arguments joined by spaces, else standard
\* input when it is not a TTY, else usage and a non-zero exit; standard input
\* is never read when an argument is given
C1_InputResolutionOrder ==
    \A p \in Invocations : Resolved(p) =>
        LET argv == input[p].argv
        IN  /\ IF Len(argv) > 0 /\ IsExistingFile(argv[1])
               THEN rawCode[p] = FileText(argv[1])
               ELSE IF Len(argv) > 0
               THEN rawCode[p] = Join(argv)
               ELSE IF ~input[p].isTTY
               THEN rawCode[p] = input[p].stdinText /\ input[p].readStdin
               ELSE pc[p] = "Failed" /\ report[p].by = "usage" /\ exitCode[p] = 1
            /\ Len(argv) > 0 => ~input[p].readStdin

\* C2: every error thrown while the loaded unit runs is handled by the catch
\* of main, reported as formatError(message) with the stack trace, and ends
\* the process with a non-zero status
C2_UnitErrorsReachMain ==
    \A p \in Invocations : report[p].origin = "unit" =>
        /\ report[p].by = "main"
        /\ report[p].text = formatError(report[p].error)
        /\ report[p].stack
        /\ exitCode[p] = 1

\* C3: after a failed toolkit check and a failed install the invocation has
\* exited non-zero without normalizing, writing or loading anything; a unit is
\* executed only after the check succeeded or the install reported success
C3_NoExecutionWithoutToolkit ==
    \A p \in Invocations :
        /\ (checked[p] = "missing" /\ installed[p] = "failed") =>
              /\ pc[p] = "Failed" /\ exitCode[p] = 1 /\ report[p].by = "install"
              /\ ~Resolved(p) /\ rawCode[p] = NoCode /\ code[p] = NoCode
              /\ tempFile[p] = NoFile /\ ~wrote[p] /\ loaded[p] = NoCode
        /\ (pc[p] \in {"Executing", "Running", "Success"} \/ wrote[p] \/ loaded[p] # NoCode) =>
              (checked[p] = "present" \/ (checked[p] = "missing" /\ installed[p] = "ok"))
        /\ installed[p] # "notrun" => checked[p] = "missing"

C3_Witness ==
    /\ checked[1] = "missing" /\ installed[1] = "failed"
    /\ pc[1] = "Failed"
    /\ unlinked[1] # {}

\* C4 as stated: after an invocation has completed, exactly one file that
\* matches the temp-file pattern is on disk
C4_ExactlyOneTempFileRemains ==
    \A p \in Invocations :
        pc[p] = "Success" => Cardinality(TempFilesOn(disk)) = 1

\* C4 as amended: after an invocation that wrote its temp file has ended, its
\* own artifact is on disk, and when the directory was listed every other
\* matching file is one whose deletion failed; so exactly one matching file
\* remains whenever the listing and every deletion succeeded
C4_OneTempFileUnlessDeletionFails ==
    \A p \in Invocations : (Ended(p) /\ wrote[p]) =>
        /\ tempFile[p] \in TempFilesOn(disk)
        /\ listing[p] = "ok" => TempFilesOn(disk) \ {tempFile[p]} \subseteq locked
        /\ (listing[p] = "ok" /\ locked = {}) => Cardinality(TempFilesOn(disk)) = 1

C4_Witness ==
    /\ pc[1] = "Success" /\ wrote[1]
    /\ Cardinality(unlinked[1]) = MaxStale
    /\ TempFilesOn(disk) = {tempFile[1]}

\* C11: an invocation given no argument and a terminal as standard input
\* exits non-zero, and it writes no temp file
C11_NoInputIsFatal ==
    \A p \in Invocations : (Resolved(p) /\ input[p].argv = <<>> /\ input[p].isTTY) =>
        /\ pc[p] = "Failed" /\ exitCode[p] = 1
        /\ report[p].by = "usage"
        /\ ~wrote[p] /\ tempFile[p] = NoFile /\ loaded[p] = NoCode
        /\ \A f \in TempFilesOn(disk) : disk[f] = StaleText

C11_Witness ==
    /\ input[1].rule = 4
    /\ input[1].argv = <<>> /\ input[1].isTTY
    /\ exitCode[1] = 1

\* C19 as stated: input resolution has completed before the toolkit check
\* begins, and an invocation without usable input never checks for or
\* installs the toolkit
C19_InputResolvedBeforeToolkitCheck ==
    \A p \in Invocations :
        /\ checked[p] # "unchecked" => Resolved(p)
        /\ input[p].rule = 4 => (checked[p] = "unchecked" /\ installed[p] = "notrun")

\* C19 as amended: the toolkit check, and the install it may trigger, have
\* completed before input resolution begins; an invocation without usable
\* input fails with the usage message only after the toolkit was found or
\* installed
C19_ToolkitCheckedBeforeInputResolved ==
    \A p \in Invocations :
        /\ (pc[p] = "ResolvingInput" \/ Resolved(p)) =>
              (checked[p] = "present" \/ (checked[p] = "missing" /\ installed[p] = "ok"))
        /\ pc[p] \in {"Idle", "CleaningStale", "CheckingToolkit", "Installing"} => ~Resolved(p)
        /\ input[p].rule = 4 => (pc[p] = "Failed" /\ report[p].by = "usage")

C19_Witness ==
    /\ input[1].rule = 4
    /\ checked[1] = "missing" /\ installed[1] = "ok"
    /\ report[1].by = "usage"

\* C20 as stated: the stale cleanup runs only after input resolution, the
\* toolkit check and normalization have succeeded, and an invocation that
\* fails at input resolution or at installation deletes no temp file
C20_CleanupAfterNormalization ==
    \A p \in Invocations :
        /\ listing[p] # "none" => (Resolved(p) /\ checked[p] # "unchecked" /\ code[p] # NoCode)
        /\ (pc[p] = "Failed" /\ report[p].origin \in {"input", "install"}) => unlinked[p] = {}

\* C20 as amended: the stale cleanup is the first step of every invocation:
\* it has run to its end before the toolkit check, input resolution and
\* normalization begin, hence before the temp file is written, and nothing
\* is unlinked after it
C20_CleanupRunsFirst ==
    \A p \in Invocations :
        /\ pc[p] \in {"Idle", "CleaningStale"} =>
              (checked[p] = "unchecked" /\ installed[p] = "notrun" /\ ~Resolved(p)
                 /\ code[p] = NoCode /\ ~wrote[p])
        /\ pc[p] \notin {"Idle", "CleaningStale"} => (listing[p] # "none" /\ pending[p] = <<>>)
        /\ pc[p] = "Idle" => (listing[p] = "none" /\ unlinked[p] = {})

C20_Witness ==
    /\ pc[1] = "Failed" /\ report[1].origin = "input"
    /\ Cardinality(unlinked[1]) = MaxStale

\* the place of each phase in main
PhaseRank ==
    [ph \in {"Idle", "CleaningStale", "CheckingToolkit", "Installing", "ResolvingInput",
             "Writing", "Executing", "Running", "Success", "Failed"} |->
        CASE ph = "Idle" -> 0
          [] ph = "CleaningStale" -> 1
          [] ph = "CheckingToolkit" -> 2
          [] ph = "Installing" -> 3
          [] ph = "ResolvingInput" -> 4
          [] ph = "Writing" -> 5
          [] ph = "Executing" -> 6
          [] ph = "Running" -> 7
          [] OTHER -> 8]

\* C21: an invocation only moves forward through its phases, the install
\* procedure runs at most once, and a failure (a report with exit code 1)
\* puts the invocation in Failed, which it never leaves
C21_NoPhaseReentered ==
    [][/\ pc'[1] # pc[1] => PhaseRank[pc'[1]] > PhaseRank[pc[1]]
       /\ installed[1] # "notrun" => installed'[1] = installed[1]
       /\ report'[1] # report[1] => (pc'[1] = "Failed" /\ exitCode'[1] = 1 /\ pc[1] # "Failed")
       /\ pc[1] = "Failed" => (pc'[1] = "Failed" /\ wrote'[1] = wrote[1] /\ loaded'[1] = loaded[1])]_vars

\* the install ran once and succeeded, and the unit failed later
C21_Witness ==
    /\ pc[1] = "Failed" /\ report[1].origin = "unit"
    /\ checked[1] = "missing" /\ installed[1] = "ok"

\* C25: once the cleanup pass is over, every listed temp file whose deletion
\* did not fail is gone, whatever the other deletions did; a listing that
\* fails deletes nothing; and no failure of the invocation comes from the
\* cleanup: every failure is reported after the toolkit check
C25_CleanupFailuresAreIgnored ==
    /\ (pc[1] \notin {"Idle", "CleaningStale"} /\ listing[1] = "ok") =>
           \A t \in 1..MaxStale : TempName(t) \in DOMAIN disk => TempName(t) \in locked
    /\ listing[1] = "failed" => (unlinked[1] = {} /\ pc[1] # "CleaningStale")
    /\ pc[1] = "Failed" => (checked[1] # "unchecked" /\ pending[1] = <<>>)

\* one deletion failed, another succeeded, and the unit was executed
C25_Witness ==
    /\ pc[1] = "Success" /\ wrote[1]
    /\ locked # {} /\ unlinked[1] # {}

----------------------------------------------------------------------------
(* Properties of invocations that share the plugin directory (SpecRace) *)

\* q has written its temp file and has not loaded it yet
JustWritten(q) == pc[q] = "Executing" /\ wrote[q]

\* C5: nothing shields a just-written temp file from another invocation's
\* cleanup: while it is on disk, a cleanup that starts now lists it, and it
\* is gone before its load only when another invocation's cleanup unlinked it
C5_CleanupRacesWithWrite ==
    \A p \in Invocations, q \in Invocations : (p # q /\ JustWritten(q)) =>
        /\ (tempFile[q] \in DOMAIN disk /\ pc[p] = "Idle") =>
              tempFile[q] \in tempFiles(DOMAIN disk)
        /\ tempFile[q] \notin DOMAIN disk => tempFile[q] \in unlinked[p]

\* one invocation's cleanup has deleted the file the other has just written
C5_Witness ==
    \E p \in Invocations, q \in Invocations :
        /\ p # q
        /\ JustWritten(q)
        /\ tempFile[q] \notin DOMAIN disk
        /\ tempFile[q] \in unlinked[p]
        /\ pc[p] \in {"CleaningStale", "CheckingToolkit"}

\* C6: any two invocations obtain distinct temp-file paths
C6_TempPathUnique ==
    \A p \in Invocations, q \in Invocations :
        (p # q /\ tempFile[p] # NoFile /\ tempFile[q] # NoFile) => tempFile[p] # tempFile[q]

\* C12: an invocation does not delete the temp file it wrote: once written,
\* the file is on disk in every later phase, on the success path and on the
\* failure path, unless the cleanup of another invocation unlinked it
C12_OwnTempFileIsKept ==
    \A p \in Invocations : wrote[p] =>
        /\ pc[p] \in {"Executing", "Running", "Success", "Failed"}
        /\ pending[p] = <<>>
        /\ \/ tempFile[p] \in DOMAIN disk
           \/ \E q \in Invocations \ {p} : tempFile[p] \in unlinked[q]

\* one invocation succeeded, the other failed while its unit ran, and both
\* temp files are on disk
C12_Witness ==
    /\ pc[1] = "Success" /\ wrote[1] /\ tempFile[1] \in DOMAIN disk
    /\ pc[2] = "Failed" /\ report[2].origin = "unit" /\ tempFile[2] \in DOMAIN disk
    /\ tempFile[1] # tempFile[2]

====
